---- MODULE Spec2Model ----
(***************************************************************************)
(* State-machine model of src/app.py: the LINE webhook handler             *)
(* handle_message, the per-request pipeline thread search_and_process      *)
(* (the second definition, lines 310-377, which is the one bound to the    *)
(* name at run time) and the three collaborators it calls.                 *)
(*                                                                         *)
(* The program keeps no job table.  What a requester can observe of a job  *)
(* is the stream of messages push_message delivered for it, so the job     *)
(* record of the specification (status, progress, result, error) is read   *)
(* off that stream: see Status, ResultPopulated, ErrorPopulated.           *)
(***************************************************************************)
EXTENDS Integers, Sequences, FiniteSets, Bags, TLC

\* Bound of the model: number of webhook messages the server receives.
MaxMessages == 3

\* Requesters (event.source.user_id) and the request threads of the web
\* server that can be inside handle_message at the same time.
Users == {"u1", "u2"}
Handlers == {"h1", "h2"}

\* Message texts.  The three command texts of handle_message (lines 55, 61,
\* 64) are written in ASCII: CmdTest is the text of line 55, CmdUsage that
\* of line 61, CmdDownload that of line 64.  Every other text is a song name.
CmdTest == "cmd_test"
CmdUsage == "cmd_usage"
CmdDownload == "cmd_download"
Commands == {CmdTest, CmdUsage, CmdDownload}
Songs == {"Lemon", "Pretender"}
Texts == Commands \cup Songs

\* A job is one thread started at lines 76-79; jobs are numbered in the
\* order of Thread.start.
JobIds == 1..MaxMessages

\* Python's None, for string-valued locals and dictionary entries.
None == "None"
\* None for a path-valued local.
NoFile == <<>>

\* Kinds of message search_and_process pushes, by source line.
Searching == "Searching"          \* line 313
NoMatch == "NoMatch"              \* line 318
Found == "Found"                  \* lines 324-333
FetchFailed == "FetchFailed"      \* line 338
Uploading == "Uploading"          \* line 341
Ready == "Ready"                  \* lines 356-365
UploadFailed == "UploadFailed"    \* lines 367-370
Error == "Error"                  \* lines 374-377
FailureKinds == {NoMatch, FetchFailed, UploadFailed, Error}

VARIABLES
    user_states,    \* the dict of line 30, as user_states.get(user_id) reads it
    calls,          \* calls of handle_message in progress: position and event
    received,       \* number of webhook messages received so far
    pc,             \* per job: position of its thread in search_and_process
    user_id,        \* per job: thread argument user_id
    song_name,      \* per job: thread argument song_name
    video_info,     \* per job: local video_info (its title), or None
    mp3_file,       \* per job: local mp3_file, or NoFile
    dropbox_link,   \* per job: local dropbox_link, or None
    pushed,         \* per job: messages push_message delivered, in order
    files,          \* temporary files on disk, as <<job, name>>
    creator,        \* per job: the event whose handler started the thread
    searchCause,    \* per job: what the search collaborator did
    fetchCause,     \* per job: what the download collaborator did
    uploadCause,    \* per job: what the storage collaborator did
    started,        \* history, per user: threads started since the user's
                    \* last download command was handled
    stdout,         \* search_youtube: the lines of result.stdout (line 162)
    best_video,     \* search_youtube: what the function returned
    file_name,      \* upload_to_dropbox: the argument file_name
    safe_name       \* upload_to_dropbox: safe_name after line 119

handlerVars == <<user_states, calls, received, started>>
localVars == <<user_id, song_name, video_info, mp3_file, dropbox_link>>
causeVars == <<searchCause, fetchCause, uploadCause>>
\* The variables of the two functions that are modelled on their own:
\* the selection of search_youtube and the file name of upload_to_dropbox.
toolVars == <<stdout, best_video, file_name, safe_name>>
vars == <<user_states, calls, received, pc, user_id, song_name, video_info,
          mp3_file, dropbox_link, pushed, files, creator, searchCause,
          fetchCause, uploadCause, started, stdout, best_video, file_name,
          safe_name>>

NoEvent == [user_id |-> None, message_text |-> None]

\* A function that has not returned yet, and one that returned v.
Pending == [returned |-> FALSE, value |-> <<>>]
Return(v) == [returned |-> TRUE, value |-> v]

\* The server after start-up: no user has a state, no request is in
\* progress, no thread exists.
ServerInit ==
    /\ user_states = [u \in Users |-> None]
    /\ calls = EmptyBag
    /\ received = 0
    /\ pc = [j \in JobIds |-> "unborn"]
    /\ user_id = [j \in JobIds |-> None]
    /\ song_name = [j \in JobIds |-> None]
    /\ video_info = [j \in JobIds |-> None]
    /\ mp3_file = [j \in JobIds |-> NoFile]
    /\ dropbox_link = [j \in JobIds |-> None]
    /\ pushed = [j \in JobIds |-> <<>>]
    /\ files = {}
    /\ creator = [j \in JobIds |-> NoEvent]
    /\ searchCause = [j \in JobIds |-> None]
    /\ fetchCause = [j \in JobIds |-> None]
    /\ uploadCause = [j \in JobIds |-> None]
    /\ started = [u \in Users |-> 0]

\* Neither of the two functions modelled on their own is being applied.
ToolsIdle ==
    /\ stdout = <<>>
    /\ best_video = Pending
    /\ file_name = <<>>
    /\ safe_name = Pending

Init == ServerInit /\ ToolsIdle

jobVars == <<pc, user_id, song_name, video_info, mp3_file, dropbox_link,
             pushed, files, creator, searchCause, fetchCause, uploadCause>>

(***************************************************************************)
(* The webhook handler, handle_message (lines 48-83).  The server runs     *)
(* every request on a thread of its own, so several calls can be in        *)
(* progress at once; they interleave at the accesses to the shared dict    *)
(* user_states.  The threads have no identity the program can see, so the  *)
(* calls in progress form a bag of (position, event) records.              *)
(***************************************************************************)

Call(p, u, t) == [pc |-> p, user_id |-> u, message_text |-> t]

\* The calls in progress when call c moves to position p, and when it ends.
Move(c, p) == (calls (-) SetToBag({c})) (+) SetToBag({[c EXCEPT !.pc = p]})
Leave(c) == calls (-) SetToBag({c})

\* callback (lines 36-46) hands one text message event to handle_message,
\* which reads user_id and message_text (lines 50-51).
callback(u, t) ==
    /\ received < MaxMessages
    /\ BagCardinality(calls) < Cardinality(Handlers)
    /\ calls' = calls (+) SetToBag({Call("L55", u, t)})
    /\ received' = received + 1
    /\ UNCHANGED <<toolVars, user_states, started, jobVars>>

\* Mutant of reply_command: the two commands clear the state of the user.
reply_command_clears_state(c) ==
    /\ BagIn(c, calls)
    /\ c.pc = "L55"
    /\ c.message_text \in {CmdTest, CmdUsage}
    /\ user_states' = [user_states EXCEPT ![c.user_id] = None]
    /\ calls' = Leave(c)
    /\ UNCHANGED <<toolVars, received, started, jobVars>>

\* Lines 55-62: the two commands that only reply (the reply may raise; either
\* way the call ends and no shared state is written).
reply_command(c) ==
    /\ BagIn(c, calls)
    /\ c.pc = "L55"
    /\ c.message_text \in {CmdTest, CmdUsage}
    /\ calls' = Leave(c)
    /\ UNCHANGED <<toolVars, user_states, received, started, jobVars>>

\* Lines 64-69: the download command stores 'waiting_song_name' for the user
\* and replies with the prompt.
ask_song_name(c) ==
    /\ BagIn(c, calls)
    /\ c.pc = "L55"
    /\ c.message_text = CmdDownload
    /\ user_states' = [user_states EXCEPT ![c.user_id] = "waiting_song_name"]
    /\ started' = [started EXCEPT ![c.user_id] = 0]
    /\ calls' = Leave(c)
    /\ UNCHANGED <<toolVars, received, jobVars>>

\* Lines 71-75: the branch test reads user_states.get(user_id) and finds
\* 'waiting_song_name'; the handler replies that the search has begun.  When
\* reply_message raises, the call ends there.
test_waiting(c) ==
    /\ BagIn(c, calls)
    /\ c.pc = "L55"
    /\ c.message_text \notin Commands
    /\ user_states[c.user_id] = "waiting_song_name"
    /\ \/ calls' = Move(c, "L76")
       \/ calls' = Leave(c)
    /\ UNCHANGED <<toolVars, user_states, received, started, jobVars>>

\* Lines 82-83: any other text in any other state shows the usage.
show_usage(c) ==
    /\ BagIn(c, calls)
    /\ c.pc = "L55"
    /\ c.message_text \notin Commands
    /\ user_states[c.user_id] # "waiting_song_name"
    /\ calls' = Leave(c)
    /\ UNCHANGED <<toolVars, user_states, received, started, jobVars>>

\* The next unused job number.
NewJob == CHOOSE j \in JobIds : pc[j] = "unborn" /\ \A k \in JobIds : k < j => pc[k] # "unborn"

\* Mutant of Thread_start: the thread does not get its own copy of the
\* arguments but reads them from a place that every call in progress writes,
\* so it may see the event of another call.
Thread_start_shared_args(c) ==
    /\ BagIn(c, calls)
    /\ c.pc = "L76"
    /\ \E j \in JobIds : pc[j] = "unborn"
    /\ pc' = [pc EXCEPT ![NewJob] = "queued"]
    /\ \E d \in BagToSet(calls) :
          /\ user_id' = [user_id EXCEPT ![NewJob] = d.user_id]
          /\ song_name' = [song_name EXCEPT ![NewJob] = d.message_text]
    /\ creator' = [creator EXCEPT ![NewJob] =
                      [user_id |-> c.user_id, message_text |-> c.message_text]]
    /\ started' = [started EXCEPT ![c.user_id] = @ + 1]
    /\ calls' = Move(c, "L80")
    /\ UNCHANGED <<toolVars, user_states, received, video_info, mp3_file, dropbox_link,
                   pushed, files, causeVars>>

\* Lines 76-79: threading.Thread(target=search_and_process,
\* args=(user_id, message_text)).start().  start() returns once the thread
\* exists; it does not wait for the target to run.
Thread_start(c) ==
    /\ BagIn(c, calls)
    /\ c.pc = "L76"
    /\ \E j \in JobIds : pc[j] = "unborn"
    /\ pc' = [pc EXCEPT ![NewJob] = "queued"]
    /\ user_id' = [user_id EXCEPT ![NewJob] = c.user_id]
    /\ song_name' = [song_name EXCEPT ![NewJob] = c.message_text]
    /\ creator' = [creator EXCEPT ![NewJob] =
                      [user_id |-> c.user_id, message_text |-> c.message_text]]
    /\ started' = [started EXCEPT ![c.user_id] = @ + 1]
    /\ calls' = Move(c, "L80")
    /\ UNCHANGED <<toolVars, user_states, received, video_info, mp3_file, dropbox_link,
                   pushed, files, causeVars>>

\* Mutant of reset_state: the handler joins the pipeline threads before it
\* goes on.
reset_state_after_join(c) ==
    /\ BagIn(c, calls)
    /\ c.pc = "L80"
    /\ \A j \in JobIds : pc[j] \in {"unborn", "done", "crashed"}
    /\ user_states' = [user_states EXCEPT ![c.user_id] = None]
    /\ calls' = Leave(c)
    /\ UNCHANGED <<toolVars, received, started, jobVars>>

\* Line 80: user_states[user_id] = None, then the handler returns.
reset_state(c) ==
    /\ BagIn(c, calls)
    /\ c.pc = "L80"
    /\ user_states' = [user_states EXCEPT ![c.user_id] = None]
    /\ calls' = Leave(c)
    /\ UNCHANGED <<toolVars, received, started, jobVars>>

\* One step of a call of handle_message (lines 55-83).
handle_message(c) ==
    \/ reply_command(c)
    \/ ask_song_name(c)
    \/ test_waiting(c)
    \/ show_usage(c)
    \/ Thread_start(c)
    \/ reset_state(c)

(***************************************************************************)
(* The collaborators, as the pipeline sees them: each is a function of     *)
(* what the external party did to the value the pipeline gets back.        *)
(***************************************************************************)

\* What the search subprocess can do: print at least one line that parses
\* and scores ("found"), print no such line ("zero"), or not run at all:
\* spawn failure or the 30 s timeout of line 159 ("unavailable").
SearchCauses == {"found", "zero", "unavailable"}

\* The title of the best video yt-dlp finds for a query.
TitleFor(query) == IF query = "Lemon" THEN "Lemon - Official MV" ELSE "Pretender - Audio"

\* search_youtube (lines 143-197): the best video (line 190), None when no
\* line parsed (lines 192-193), and None again when subprocess.run raised
\* (lines 195-197).
search_youtube(query, cause) ==
    IF cause = "found" THEN TitleFor(query) ELSE None

\* What the download subprocess can do: exit 0 with the artifact at the
\* expected path ("ok"), exit non-zero ("nonzero"), make subprocess.run
\* raise: the 300 s timeout of line 295, or a spawn failure ("timeout"), or
\* exit 0 with its output under another name and nothing at the expected
\* path ("renamed").
FetchCauses == {"ok", "nonzero", "timeout", "renamed"}

\* The temporary file of a job: the path NamedTemporaryFile(delete=False,
\* suffix='.mp3') creates at line 281, which is also the expected artifact
\* path of line 298.
Mp3Path(j) == <<j, "mp3">>
\* The path of an output the download wrote under another name, with the
\* extension .mp3 and in the same directory.
OtherPath(j) == <<j, "other">>

\* download_audio (lines 278-308): the path when the exit code is 0 and the
\* file exists (lines 297-303), None otherwise (line 304) and on any
\* exception, the timeout included (lines 306-308).
download_audio(j, cause) ==
    IF cause = "ok" THEN Mp3Path(j) ELSE NoFile

\* The files of job j on disk when download_audio returns.  Line 281 has
\* created the file at Mp3Path(j) and nothing in download_audio removes it;
\* a download that wrote elsewhere has replaced it by the other path.
FilesAfterDownload(j, cause) ==
    IF cause = "renamed" THEN {OtherPath(j)} ELSE {Mp3Path(j)}

\* What the storage collaborator can do: upload and share ("ok"), or fail
\* ("failed"): no client because no token is configured (lines 103-104 and
\* 114-115), AuthError (lines 136-138), any other exception (lines 139-141).
UploadCauses == {"ok", "failed"}

\* Mutant of upload_to_dropbox: the exception clauses of lines 136-141 hand
\* back a link instead of None.
upload_to_dropbox_always_link(cause) ==
    "url"

\* upload_to_dropbox (lines 110-141): the shared link's url, or None.
upload_to_dropbox(cause) ==
    IF cause = "ok" THEN "url" ELSE None

(***************************************************************************)
(* The pipeline thread, search_and_process (lines 310-377).  pc names the  *)
(* line the thread executes next; "done" is a normal return, "crashed" an  *)
(* exception that left the function.                                       *)
(***************************************************************************)

\* A message as push_message sends it: the recipient, the kind of text and
\* the title the text quotes ("-" when it quotes none).
Msg(to, kind, title) == [to |-> to, kind |-> kind, title |-> title]

\* line_bot_api.push_message inside the try block of lines 312-370: the
\* message is delivered and the thread goes on at `next`, or the call raises
\* and control goes to the except clause of line 372.
push_message(j, kind, title, next) ==
    /\ \/ /\ pushed' = [pushed EXCEPT ![j] = Append(@, Msg(user_id[j], kind, title))]
          /\ pc' = [pc EXCEPT ![j] = next]
       \/ /\ pc' = [pc EXCEPT ![j] = "L372"]
          /\ UNCHANGED pushed
    /\ UNCHANGED <<toolVars, handlerVars, localVars, files, creator, causeVars>>

\* The thread is scheduled and enters the function (lines 310-312).
run(j) ==
    /\ pc[j] = "queued"
    /\ pc' = [pc EXCEPT ![j] = "L313"]
    /\ UNCHANGED <<toolVars, handlerVars, localVars, pushed, files, creator, causeVars>>

\* Line 313.
push_searching(j) ==
    /\ pc[j] = "L313"
    /\ push_message(j, Searching, "-", "L316")

\* Lines 316-317: video_info = search_youtube(song_name); if not video_info.
search(j) ==
    /\ pc[j] = "L316"
    /\ \E cause \in SearchCauses :
        /\ searchCause' = [searchCause EXCEPT ![j] = cause]
        /\ video_info' = [video_info EXCEPT ![j] = search_youtube(song_name[j], cause)]
        /\ pc' = [pc EXCEPT ![j] =
                    IF search_youtube(song_name[j], cause) = None THEN "L318" ELSE "L324"]
    /\ UNCHANGED <<toolVars, handlerVars, user_id, song_name, mp3_file, dropbox_link,
                   pushed, files, creator, fetchCause, uploadCause>>

\* Lines 318-319: report that nothing was found, then return.
push_not_found(j) ==
    /\ pc[j] = "L318"
    /\ push_message(j, NoMatch, "-", "done")

\* Lines 322-333: report the video that was found.
push_found(j) ==
    /\ pc[j] = "L324"
    /\ push_message(j, Found, video_info[j], "L336")

\* Lines 336-337: mp3_file = download_audio(video_info['url']); if not mp3_file.
download(j) ==
    /\ pc[j] = "L336"
    /\ \E cause \in FetchCauses :
        /\ fetchCause' = [fetchCause EXCEPT ![j] = cause]
        /\ mp3_file' = [mp3_file EXCEPT ![j] = download_audio(j, cause)]
        /\ files' = files \cup FilesAfterDownload(j, cause)
        /\ pc' = [pc EXCEPT ![j] =
                    IF download_audio(j, cause) = NoFile THEN "L338" ELSE "L341"]
    /\ UNCHANGED <<toolVars, handlerVars, user_id, song_name, video_info, dropbox_link,
                   pushed, creator, searchCause, uploadCause>>

\* Mutant of push_download_failed: the return of line 339 is missing, so the
\* thread goes on to line 341.
push_download_failed_no_return(j) ==
    /\ pc[j] = "L338"
    /\ push_message(j, FetchFailed, "-", "L341")

\* Lines 338-339: report the failed download, then return.
push_download_failed(j) ==
    /\ pc[j] = "L338"
    /\ push_message(j, FetchFailed, "-", "done")

\* Line 341.
push_uploading(j) ==
    /\ pc[j] = "L341"
    /\ push_message(j, Uploading, "-", "L344")

\* Lines 344-345: dropbox_link = upload_to_dropbox(mp3_file, file_name).
upload(j) ==
    /\ pc[j] = "L344"
    /\ \E cause \in UploadCauses :
        /\ uploadCause' = [uploadCause EXCEPT ![j] = cause]
        /\ dropbox_link' = [dropbox_link EXCEPT ![j] = upload_to_dropbox(cause)]
    /\ pc' = [pc EXCEPT ![j] = "L348"]
    /\ UNCHANGED <<toolVars, handlerVars, user_id, song_name, video_info, mp3_file,
                   pushed, files, creator, searchCause, fetchCause>>

\* Lines 348-352: os.unlink(mp3_file) in its own try block: the file is
\* removed, or unlink raises, the exception is printed and the file stays.
unlink(j) ==
    /\ pc[j] = "L348"
    /\ \/ files' = files \ {mp3_file[j]}
       \/ UNCHANGED files
    /\ pc' = [pc EXCEPT ![j] = "L354"]
    /\ UNCHANGED <<toolVars, handlerVars, localVars, pushed, creator, causeVars>>

\* Mutant of report: a statement after the success message raises inside the
\* try block, so the except clause runs after the message was delivered.
report_then_raise(j) ==
    /\ pc[j] = "L354"
    /\ IF dropbox_link[j] # None
       THEN /\ pushed' = [pushed EXCEPT ![j] = Append(@, Msg(user_id[j], Ready, video_info[j]))]
            /\ pc' = [pc EXCEPT ![j] = "L372"]
            /\ UNCHANGED <<toolVars, handlerVars, localVars, files, creator, causeVars>>
       ELSE push_message(j, UploadFailed, "-", "done")

\* Lines 354-370: the success message when there is a link, the upload
\* failure message otherwise; the function ends after either.
report(j) ==
    /\ pc[j] = "L354"
    /\ IF dropbox_link[j] # None
       THEN push_message(j, Ready, video_info[j], "done")
       ELSE push_message(j, UploadFailed, "-", "done")

\* Mutant of except_clause: the clause does not report but runs the pipeline
\* again, from the search on.
except_clause_retry(j) ==
    /\ pc[j] = "L372"
    /\ pc' = [pc EXCEPT ![j] = "L316"]
    /\ UNCHANGED <<toolVars, handlerVars, localVars, pushed, files, creator, causeVars>>

\* Lines 372-377: the except clause pushes the generic error message.  The
\* push is not itself guarded: when it raises, the exception leaves
\* search_and_process and ends the thread.
except_clause(j) ==
    /\ pc[j] = "L372"
    /\ \/ /\ pushed' = [pushed EXCEPT ![j] = Append(@, Msg(user_id[j], Error, "-"))]
          /\ pc' = [pc EXCEPT ![j] = "done"]
       \/ /\ pc' = [pc EXCEPT ![j] = "crashed"]
          /\ UNCHANGED pushed
    /\ UNCHANGED <<toolVars, handlerVars, localVars, files, creator, causeVars>>

\* One step of the thread of job j.
search_and_process(j) ==
    \/ run(j)
    \/ push_searching(j)
    \/ search(j)
    \/ push_not_found(j)
    \/ push_found(j)
    \/ download(j)
    \/ push_download_failed(j)
    \/ push_uploading(j)
    \/ upload(j)
    \/ unlink(j)
    \/ report(j)
    \/ except_clause(j)

Next ==
    \/ \E u \in Users, t \in Texts : callback(u, t)
    \/ \E c \in BagToSet(calls) : reply_command(c)
    \/ \E c \in BagToSet(calls) : ask_song_name(c)
    \/ \E c \in BagToSet(calls) : test_waiting(c)
    \/ \E c \in BagToSet(calls) : show_usage(c)
    \/ \E c \in BagToSet(calls) : Thread_start(c)
    \/ \E c \in BagToSet(calls) : reset_state(c)
    \/ \E j \in JobIds : run(j)
    \/ \E j \in JobIds : push_searching(j)
    \/ \E j \in JobIds : search(j)
    \/ \E j \in JobIds : push_not_found(j)
    \/ \E j \in JobIds : push_found(j)
    \/ \E j \in JobIds : download(j)
    \/ \E j \in JobIds : push_download_failed(j)
    \/ \E j \in JobIds : push_uploading(j)
    \/ \E j \in JobIds : upload(j)
    \/ \E j \in JobIds : unlink(j)
    \/ \E j \in JobIds : report(j)
    \/ \E j \in JobIds : except_clause(j)

Spec == Init /\ [][Next]_vars

(***************************************************************************)
(* The job record a requester observes.  search_and_process stores nothing *)
(* but sends every progress and every outcome as a message, so the record  *)
(* is read off the messages delivered so far: the latest message gives the *)
(* status, the success message is the result and a failure message is the  *)
(* error.                                                                  *)
(***************************************************************************)

Born(j) == pc[j] # "unborn"
Exited(j) == pc[j] \in {"done", "crashed"}
Kinds(j) == {pushed[j][i].kind : i \in DOMAIN pushed[j]}

\* The status of job j: queued from Thread.start until the thread first
\* runs, then downloading, until the success message (lines 356-365) or one
\* of the failure messages (lines 318, 338, 367-370, 374-377) is delivered.
Status(j) ==
    IF pc[j] = "unborn" THEN "absent"
    ELSE IF pushed[j] = <<>>
         THEN IF pc[j] = "queued" THEN "queued" ELSE "downloading"
    ELSE IF pushed[j][Len(pushed[j])].kind = Ready THEN "completed"
    ELSE IF pushed[j][Len(pushed[j])].kind \in FailureKinds THEN "failed"
    ELSE "downloading"

Terminal == {"completed", "failed"}

\* result is populated once the success message of lines 356-365 is
\* delivered; error once a failure message is delivered.
ResultPopulated(j) == Ready \in Kinds(j)
ErrorPopulated(j) == Kinds(j) \cap FailureKinds # {}
\* The causes reported for job j.
ErrorCauses(j) == Kinds(j) \cap FailureKinds

\* A pipeline step of job j failed.
StepFailed(j) ==
    \/ searchCause[j] \in {"zero", "unavailable"}
    \/ fetchCause[j] \in {"nonzero", "timeout", "renamed"}
    \/ uploadCause[j] = "failed"

(***************************************************************************)
(* The claims.                                                             *)
(***************************************************************************)

AllowedTransitions ==
    {<<"absent", "queued">>, <<"queued", "downloading">>,
     <<"downloading", "completed">>, <<"downloading", "failed">>}

\* C1: the status of a job changes only by queued -> downloading,
\* downloading -> completed and downloading -> failed, starting from queued
\* when the job is created; a completed or failed job keeps its status.
C1_StatusTransitions ==
    [][\A j \in JobIds :
          \/ Status(j)' = Status(j)
          \/ <<Status(j), Status(j)'>> \in AllowedTransitions]_vars

\* C1 witness: one job has become completed and another one failed.
C1_Witness ==
    \E j, k \in JobIds : Status(j) = "completed" /\ Status(k) = "failed"

C4_ZeroResultsEndNoMatch ==
    \A j \in JobIds :
        searchCause[j] = "zero" =>
            /\ fetchCause[j] = None /\ uploadCause[j] = None
            /\ Status(j) # "completed"
            /\ pc[j] = "done" => Status(j) = "failed" /\ ErrorCauses(j) = {NoMatch}

\* C5: when the search collaborator could not be invoked, search_youtube
\* hands back something other than its 'not found' value and the job never
\* reports the 'no match' cause.
C5_SearchUnavailableDistinct ==
    \A j \in JobIds :
        searchCause[j] = "unavailable" =>
            /\ search_youtube(song_name[j], "unavailable") # search_youtube(song_name[j], "zero")
            /\ NoMatch \notin Kinds(j)

\* C6: no exception leaves search_and_process: a thread that has ended has
\* returned, and when a step or a notification failed it ended failed.
C6_NoFailureEscapes ==
    \A j \in JobIds :
        /\ pc[j] # "crashed"
        /\ Exited(j) => Status(j) \in Terminal

\* C7: when the thread of a job has ended, no temporary file of the job is
\* left on disk.
C7_NoTempFileLeft ==
    \A j \in JobIds : Exited(j) => \A f \in files : f[1] # j

\* C8: a job whose fetch ran into the timeout is never completed and does not
\* stop short of the failed outcome: it is failed, or its thread can still
\* take a step.
C8_TimeoutEndsFailed ==
    \A j \in JobIds :
        fetchCause[j] = "timeout" =>
            /\ Status(j) # "completed"
            /\ pc[j] # "L336"
            /\ Status(j) = "failed" \/ ENABLED search_and_process(j)

\* C9: the handler never waits for the pipeline: a handler that has received
\* a message can always take its next step, and in particular, once
\* Thread.start has returned, line 80 and the return, whatever the state of
\* the jobs is.
C9_HandlerNeverBlocks ==
    \A c \in BagToSet(calls) :
        /\ ENABLED handle_message(c)
        /\ c.pc = "L80" => ENABLED reset_state(c)

\* C9 witness: every call of the handler has returned while one job has not started to
\* run and another one is in the middle of its pipeline.
C9_Witness ==
    /\ calls = EmptyBag
    /\ \E j, k \in JobIds : pc[j] = "queued" /\ pc[k] = "L336"

\* Everything job j owns: the position and the locals of its thread, the
\* messages delivered for it, what its collaborators did, and its files.
JobRecord(j) ==
    <<pc[j], user_id[j], song_name[j], video_info[j], mp3_file[j], dropbox_link[j],
      pushed[j], creator[j], searchCause[j], fetchCause[j], uploadCause[j],
      files \cap {Mp3Path(j), OtherPath(j)}>>

\* Job j holds and sends nothing but what comes from its own requester and
\* request.
Attributed(j) ==
    /\ user_id[j] = creator[j].user_id
    /\ song_name[j] = creator[j].message_text
    /\ video_info[j] \in {None, TitleFor(creator[j].message_text)}
    /\ mp3_file[j] \in {NoFile, Mp3Path(j)}
    /\ \A i \in DOMAIN pushed[j] :
          /\ pushed[j][i].to = creator[j].user_id
          /\ pushed[j][i].title \in {"-", TitleFor(creator[j].message_text)}

MaxLines == 3

\* str.lower on one character and on a string.
LowerOf ==
    [A |-> "a", B |-> "b", C |-> "c", D |-> "d", E |-> "e", F |-> "f", G |-> "g",
     H |-> "h", I |-> "i", J |-> "j", K |-> "k", L |-> "l", M |-> "m", N |-> "n",
     O |-> "o", P |-> "p", Q |-> "q", R |-> "r", S |-> "s", T |-> "t", U |-> "u",
     V |-> "v", W |-> "w", X |-> "x", Y |-> "y", Z |-> "z"]
lower_char(c) == IF c \in DOMAIN LowerOf THEN LowerOf[c] ELSE c
lower(str) == [i \in DOMAIN str |-> lower_char(str[i])]

\* Python's `sub in str` on strings.
Contains(sub, str) ==
    \E i \in 0..(Len(str) - Len(sub)) : SubSeq(str, i + 1, i + Len(sub)) = sub

\* Lines 207-210: music_keywords, in the order of the list.  The last two
\* are the Japanese keywords of line 209, character by character.
music_keywords ==
    << <<"o", "f", "f", "i", "c", "i", "a", "l">>, <<"m", "v">>,
       <<"m", "u", "s", "i", "c">>, <<"a", "u", "d", "i", "o">>,
       <<"f", "u", "l", "l">>, <<"l", "y", "r", "i", "c">>,
       <<"l", "y", "r", "i", "c", "s">>,
       <<"uta", "tsu", "te", "mi", "ta">>, <<"ka", "ba", "cho-on">> >>

\* Line 223: artist_keywords.
artist_keywords ==
    << <<"t", "o", "p", "i", "c">>, <<"v", "e", "v", "o">>,
       <<"r", "e", "c", "o", "r", "d", "s">>, <<"m", "u", "s", "i", "c">> >>

\* Lines 212-214: the loop over music_keywords, score += 2 for each keyword
\* that is in the title.
RECURSIVE keyword_loop(_, _, _)
keyword_loop(keywords, title, score) ==
    IF keywords = <<>> THEN score
    ELSE keyword_loop(Tail(keywords), title,
                      IF Contains(Head(keywords), title) THEN score + 2 ELSE score)

\* Mutant of duration_score: the ideal window of lines 217-218 is gone and
\* only the test of lines 219-220 is left.
duration_score_no_ideal_window(duration) ==
    IF 60 <= duration /\ duration <= 600 THEN 1 ELSE 0

\* Lines 217-220: if 120 <= duration <= 480: +3, elif 60 <= duration <= 600: +1.
duration_score(duration) ==
    IF 120 <= duration /\ duration <= 480 THEN 3
    ELSE IF 60 <= duration /\ duration <= 600 THEN 1
    ELSE 0

\* Lines 223-225: +1 if any artist keyword is in the lower-cased uploader.
artist_score(uploader) ==
    IF \E k \in DOMAIN artist_keywords : Contains(artist_keywords[k], uploader)
    THEN 1 ELSE 0

\* Mutant of view_score: the thresholds of lines 229 and 231 are not strict.
view_score_not_strict(view_count) ==
    IF view_count >= 1000000 THEN 2
    ELSE IF view_count >= 100000 THEN 1
    ELSE 0

\* Lines 228-232: if view_count > 1000000: +2, elif view_count > 100000: +1.
view_score(view_count) ==
    IF view_count > 1000000 THEN 2
    ELSE IF view_count > 100000 THEN 1
    ELSE 0

\* calculate_music_score (lines 199-234), for a video whose values have
\* the types the function expects.
calculate_music_score(video) ==
    keyword_loop(music_keywords, lower(video.title), 0)
        + duration_score(video.duration)
        + artist_score(lower(video.uploader))
        + view_score(video.view_count)

\* The keys search_youtube reads from a result (lines 167-171).
Keys == {"title", "webpage_url", "duration", "uploader", "view_count"}

\* One line of result.stdout.  kind says what json.loads makes of it: an
\* object ("object"), another JSON value ("value"), an exception ("invalid"),
\* or the line is empty ("blank").  For an object, `absent` are the keys it
\* does not have and `null` the keys whose value is null; the other keys
\* have the values of the record.
JsonObject(title, url, duration, uploader, view_count, null, absent) ==
    [kind |-> "object", title |-> title, webpage_url |-> url, duration |-> duration,
     uploader |-> uploader, view_count |-> view_count, null |-> null,
     absent |-> absent]
NotAnObject(kind) == [JsonObject(<<>>, "", 0, <<>>, 0, {}, Keys) EXCEPT !.kind = kind]

\* data.get(key, default) of lines 167-171: the default for a key the object
\* does not have; a null value is handed on as None (listed in `none`).
Get(data, key, default) == IF key \in data.absent THEN default ELSE data[key]

\* Lines 166-172: video_info as built from the parsed object.
parse_video_info(data) ==
    [title |-> Get(data, "title", <<>>),
     url |-> Get(data, "webpage_url", ""),
     duration |-> Get(data, "duration", 0),
     uploader |-> Get(data, "uploader", <<>>),
     view_count |-> Get(data, "view_count", 0),
     none |-> data.null \ data.absent]

\* The body of the try block of lines 165-179 raises: json.loads on a line
\* that is not JSON (line 165), data.get on a value that is no object (line
\* 167), and in calculate_music_score None.lower() (lines 202, 204) and the
\* comparison of None with a number (lines 217, 229).
Raises(line) ==
    \/ line.kind # "object"
    \/ parse_video_info(line).none \cap {"title", "duration", "uploader", "view_count"} # {}

\* Lines 175-176: the video with its score.
Scored(video) ==
    [title |-> video.title, url |-> video.url,
     duration |-> video.duration, uploader |-> video.uploader,
     view_count |-> video.view_count,
     score |-> calculate_music_score(video)]

\* Mutant of parse_lines: the handler of lines 181-183 is not inside the
\* loop, so the first line that raises ends the parsing of the output and
\* the search returns None.
RECURSIVE parse_lines_abort(_, _)
parse_lines_abort(lines, videos) ==
    IF lines = <<>> THEN videos
    ELSE IF Head(lines).kind = "blank" THEN parse_lines_abort(Tail(lines), videos)
    ELSE IF Raises(Head(lines)) THEN <<>>
    ELSE parse_lines_abort(Tail(lines), Append(videos, Scored(parse_video_info(Head(lines)))))

\* Lines 161-183: the loop over the lines of stdout.  An empty line is
\* passed over (line 163); a line whose try block raises is passed over
\* (lines 181-183); every other line is appended to videos with its score.
RECURSIVE parse_lines(_, _)
parse_lines(lines, videos) ==
    IF lines = <<>> THEN videos
    ELSE IF Head(lines).kind = "blank" \/ Raises(Head(lines))
         THEN parse_lines(Tail(lines), videos)
    ELSE parse_lines(Tail(lines), Append(videos, Scored(parse_video_info(Head(lines)))))

\* A list with v put behind every element whose score is at least v's.
RECURSIVE InsertBehindEqual(_, _)
InsertBehindEqual(v, sorted) ==
    IF sorted = <<>> THEN <<v>>
    ELSE IF Head(sorted).score >= v.score
         THEN <<Head(sorted)>> \o InsertBehindEqual(v, Tail(sorted))
    ELSE <<v>> \o sorted

\* A list with v put before every element whose score is at most v's.
RECURSIVE InsertBeforeEqual(_, _)
InsertBeforeEqual(v, sorted) ==
    IF sorted = <<>> THEN <<v>>
    ELSE IF Head(sorted).score > v.score
         THEN <<Head(sorted)>> \o InsertBeforeEqual(v, Tail(sorted))
    ELSE <<v>> \o sorted

\* Mutant of sort_videos: an unstable order, videos of equal score come out
\* in the reverse of their input order (sorting ascending, then reversing).
RECURSIVE sort_videos_reversing_ties(_, _)
sort_videos_reversing_ties(videos, sorted) ==
    IF videos = <<>> THEN sorted
    ELSE sort_videos_reversing_ties(Tail(videos), InsertBeforeEqual(Head(videos), sorted))

\* Line 187: videos.sort(key=lambda x: x['score'], reverse=True).  list.sort
\* is stable, with reverse=True too: descending by score, and videos of
\* equal score stay in their input order.
RECURSIVE sort_videos(_, _)
sort_videos(videos, sorted) ==
    IF videos = <<>> THEN sorted
    ELSE sort_videos(Tail(videos), InsertBehindEqual(Head(videos), sorted))

\* Lines 161-193: what search_youtube returns for the lines the subprocess
\* printed: <<best_video>>, or <<>> for None when no line gave a video.
select_best_video(lines) ==
    IF parse_lines(lines, <<>>) # <<>>
    THEN <<sort_videos(parse_lines(lines, <<>>), <<>>)[1]>>
    ELSE <<>>

\* search_youtube runs on the output in stdout and returns.
search_youtube_returns ==
    /\ ~best_video.returned
    /\ best_video' = Return(select_best_video(stdout))
    /\ UNCHANGED <<handlerVars, jobVars, stdout, file_name, safe_name>>

\* Titles and uploader names of the results.
TitleLemon == <<"L", "e", "m", "o", "n">>
TitleOfficialMV == <<"O", "f", "f", "i", "c", "i", "a", "l", " ", "M", "V">>
TitleLyrics == <<"L", "y", "r", "i", "c", "s">>
TitleFullAudio == <<"F", "U", "L", "L", " ", "a", "u", "d", "i", "o">>
TitleCover == <<"L", "e", "m", "o", "n", " ", "ka", "ba", "cho-on">>
TitleMusic == <<"m", "u", "s", "i", "c">>
UploaderPlain == <<"k", "e", "n", "s", "h", "i">>
UploaderVevo == <<"K", "e", "n", "s", "h", "i", "V", "E", "V", "O">>
UploaderTopic == <<"K", "e", "n", "s", "h", "i", " ", "-", " ", "T", "o", "p", "i", "c">>
UploaderMusicRecords ==
    <<"m", "u", "s", "i", "c", " ", "r", "e", "c", "o", "r", "d", "s">>

\* The outputs of the ranking specification: up to MaxLines lines, each a
\* result that differs from the others in its url and its duration only,
\* one result with a higher score for other reasons, or a line that is
\* passed over.
RankLines ==
    {JsonObject(TitleLemon, url, duration, UploaderPlain, 0, {}, {}) :
        url \in {"url1", "url2"}, duration \in {30, 300, 500, 900}}
    \cup {JsonObject(TitleOfficialMV, "url3", 30, UploaderVevo, 2000000, {}, {}),
          JsonObject(TitleLemon, "url1", 300, UploaderPlain, 0, {"duration"}, {}),
          NotAnObject("invalid"), NotAnObject("value"), NotAnObject("blank")}

SeqsUpTo(S, n) == UNION {[1..k -> S] : k \in 0..n}

RankInit ==
    /\ ServerInit
    /\ stdout \in SeqsUpTo(RankLines, MaxLines)
    /\ best_video = Pending
    /\ file_name = <<>>
    /\ safe_name = Pending

RankSpec == RankInit /\ [][search_youtube_returns]_vars

\* The outputs of the scoring specification: one result, with every
\* combination of title, duration, uploader and view count, the values at
\* and next to the thresholds of lines 217-231 among them.
ScoreTitles ==
    {TitleLemon, TitleOfficialMV, TitleLyrics, TitleFullAudio, TitleCover, TitleMusic}
ScoreDurations == {0, 59, 60, 119, 120, 300, 480, 481, 600, 601}
ScoreUploaders == {UploaderPlain, UploaderVevo, UploaderTopic, UploaderMusicRecords}
ScoreViews == {0, 100000, 100001, 1000000, 1000001}
ScoreLines ==
    {JsonObject(title, "url1", duration, uploader, view_count, {}, {}) :
        title \in ScoreTitles, duration \in ScoreDurations,
        uploader \in ScoreUploaders, view_count \in ScoreViews}

ScoreInit ==
    /\ ServerInit
    /\ stdout \in {<<line>> : line \in ScoreLines}
    /\ best_video = Pending
    /\ file_name = <<>>
    /\ safe_name = Pending

ScoreSpec == ScoreInit /\ [][search_youtube_returns]_vars

\* The candidates of the output in stdout, in input order, with their scores.
Candidates == parse_lines(stdout, <<>>)

\* C11: search_youtube returns the first candidate in input order among
\* those with the maximum score: no candidate has a higher score and every
\* earlier candidate has a lower one; without candidates it returns None.
C11_FirstOfMaxScore ==
    best_video.returned =>
        LET videos == Candidates IN
        IF videos = <<>> THEN best_video.value = <<>>
        ELSE \E i \in DOMAIN videos :
                /\ best_video.value = <<videos[i]>>
                /\ \A k \in DOMAIN videos : videos[k].score <= videos[i].score
                /\ \A k \in 1..(i - 1) : videos[k].score < videos[i].score

\* C11 witness: two different candidates tie on the maximum score behind a
\* candidate of lower score, and the earlier of the two was returned.
C11_Witness ==
    /\ best_video.returned
    /\ Len(Candidates) = 3
    /\ Candidates[1].score < Candidates[2].score
    /\ Candidates[2].score = Candidates[3].score
    /\ Candidates[2] # Candidates[3]
    /\ best_video.value = <<Candidates[2]>>

\* Two videos are equal in every field except, possibly, the duration.
SameButDuration(v, w) ==
    /\ v.title = w.title
    /\ v.url = w.url
    /\ v.uploader = w.uploader
    /\ v.view_count = w.view_count

IdealDuration(duration) == duration \in 120..480

\* C12: in the ranking, of two candidates equal in every field except the
\* duration the one with a duration in 120..480 comes before the one with a
\* duration outside; when all candidates are equal except for the duration
\* and one has a duration in 120..480, such a one is returned.
C12_IdealWindowFirst ==
    best_video.returned =>
        LET ranked == sort_videos(Candidates, <<>>) IN
        /\ \A i, j \in DOMAIN ranked :
              /\ SameButDuration(ranked[i], ranked[j])
              /\ IdealDuration(ranked[i].duration)
              /\ ~IdealDuration(ranked[j].duration)
              => i < j
        /\ /\ \A i, j \in DOMAIN ranked : SameButDuration(ranked[i], ranked[j])
           /\ \E i \in DOMAIN ranked : IdealDuration(ranked[i].duration)
           => /\ best_video.value # <<>>
              /\ IdealDuration(best_video.value[1].duration)

\* C12 witness: the output had the durations 30 s, 900 s and 300 s, in this
\* order and otherwise equal, and the 300 s candidate was returned.
C12_Witness ==
    /\ best_video.returned
    /\ Len(Candidates) = 3
    /\ \A i, j \in 1..3 : SameButDuration(Candidates[i], Candidates[j])
    /\ <<Candidates[1].duration, Candidates[2].duration, Candidates[3].duration>>
          = <<30, 900, 300>>
    /\ best_video.value = <<Candidates[3]>>

\* The score of a result as the sum of four terms: 2 for each keyword that
\* is in the lower-cased title, the term of the duration windows, 1 for an
\* artist keyword in the uploader name, the term of the view count.
SumOfTerms(data) ==
    2 * Cardinality({k \in DOMAIN music_keywords :
                        Contains(music_keywords[k], lower(data.title))})
    + (IF data.duration \in 120..480 THEN 3
       ELSE IF data.duration \in 60..600 THEN 1 ELSE 0)
    + (IF \E k \in DOMAIN artist_keywords :
             Contains(artist_keywords[k], lower(data.uploader))
       THEN 1 ELSE 0)
    + (IF data.view_count > 1000000 THEN 2
       ELSE IF data.view_count > 100000 THEN 1 ELSE 0)

WellFormed(line) ==
    /\ line.kind = "object"
    /\ \A key \in {"title", "duration", "uploader", "view_count"} :
          key \in line.absent \/ key \notin line.null

\* C15: the candidates are exactly the well-formed lines of the output, in
\* their order, each parsed and scored, and what is returned is what would
\* be returned for the well-formed lines alone: a video whenever there is a
\* well-formed line.
C15_MalformedLinesSkipped ==
    best_video.returned =>
        LET good == SelectSeq(stdout, WellFormed)
            videos == Candidates
        IN
        /\ Len(videos) = Len(good)
        /\ \A i \in DOMAIN good : videos[i] = Scored(parse_video_info(good[i]))
        /\ best_video.value = select_best_video(good)
        /\ good # <<>> => best_video.value # <<>>

\* C15 witness: the first line was not JSON, the last one had a null
\* duration, and the well-formed line between them was returned.
C15_Witness ==
    /\ best_video.returned
    /\ Len(stdout) = 3
    /\ stdout[1].kind = "invalid"
    /\ WellFormed(stdout[2])
    /\ stdout[3].kind = "object" /\ "duration" \in stdout[3].null
    /\ best_video.value = <<Scored(parse_video_info(stdout[2]))>>

(***************************************************************************)
(* The file name of upload_to_dropbox (lines 117-119).                     *)
(***************************************************************************)

\* Bound: a file name is made of up to MaxRuns runs of one character.
MaxRuns == 2
\* Line 119: safe_name[:100].
MaxNameLen == 100

\* The characters of the file names: letters and a digit, a letter that is
\* not ASCII, the four other characters line 118 keeps, and a slash and a
\* tab.
Characters == {"a", "Z", "7", "kanji", " ", "-", "_", ".", "/", "tab"}

\* str.isalnum on one character: true for letters and digits, those that
\* are not ASCII included.
isalnum(c) == c \in {"a", "Z", "7", "kanji"}

\* The test of the generator of line 118.
Kept(c) == isalnum(c) \/ c \in {" ", "-", "_", "."}

\* str.rstrip(): the string up to its last character that is no whitespace.
rstrip(str) ==
    LET solid == {i \in DOMAIN str : str[i] \notin {" ", "tab"}} IN
    IF solid = {} THEN <<>>
    ELSE SubSeq(str, 1, CHOOSE i \in solid : \A k \in solid : k <= i)

\* Mutant of truncate: the slice of line 119 is missing.
truncate_missing(str) ==
    str

\* Line 119: safe_name[:100].
truncate(str) ==
    IF Len(str) > MaxNameLen THEN SubSeq(str, 1, MaxNameLen) ELSE str

\* Lines 118-119: safe_name as computed from file_name.
make_safe_name(name) ==
    truncate(rstrip(SelectSeq(name, Kept)))

\* upload_to_dropbox computes safe_name from its argument file_name.
sanitize ==
    /\ ~safe_name.returned
    /\ safe_name' = Return(make_safe_name(file_name))
    /\ UNCHANGED <<handlerVars, jobVars, stdout, best_video, file_name>>

\* The file names: up to MaxRuns runs, each of 1, 50 or 101 times the same
\* character.
RunLengths == {1, 50, 101}
Runs == {[i \in 1..n |-> c] : c \in Characters, n \in RunLengths}
RECURSIVE Concat(_)
Concat(seqs) == IF seqs = <<>> THEN <<>> ELSE Head(seqs) \o Concat(Tail(seqs))
FileNames == {Concat(runs) : runs \in SeqsUpTo(Runs, MaxRuns)}

SanitizeInit ==
    /\ ServerInit
    /\ stdout = <<>>
    /\ best_video = Pending
    /\ file_name \in FileNames
    /\ safe_name = Pending

SanitizeSpec == SanitizeInit /\ [][sanitize]_vars

\* The characters a safe name may have: alphanumerics, space, hyphen,
\* underscore and dot.
AllowedCharacters == {c \in Characters : isalnum(c)} \cup {" ", "-", "_", "."}

\* C13: the safe name has only alphanumerics, spaces, hyphens, underscores
\* and dots, and at most 100 characters.
C13_SafeNameAllowedAndShort ==
    safe_name.returned =>
        /\ \A i \in DOMAIN safe_name.value : safe_name.value[i] \in AllowedCharacters
        /\ Len(safe_name.value) <= 100

\* C13 witness: a file name with a slash and with more than 100 characters
\* that are kept gave a safe name of exactly 100 characters.
C13_Witness ==
    /\ safe_name.returned
    /\ \E i \in DOMAIN file_name : file_name[i] = "/"
    /\ Len(SelectSeq(file_name, Kept)) > 100
    /\ Len(safe_name.value) = 100

(***************************************************************************)
(* The pipeline and the handler again.                                     *)
(***************************************************************************)

\* C16: when the download exited with code 0, left nothing at the expected
\* path and wrote an .mp3 file under another name, download_audio finds that
\* file by a scan of the directory and returns it, and no fetch failure is
\* reported.
C16_ScanFallback ==
    \A j \in JobIds :
        fetchCause[j] = "renamed" /\ OtherPath(j) \in files =>
            /\ mp3_file[j] = OtherPath(j)
            /\ pc[j] # "L338"
            /\ FetchFailed \notin Kinds(j)

\* C17: a job calls search_youtube, download_audio and upload_to_dropbox at
\* most once each and in this order: the search when no step has run, the
\* download only after the search returned a video and only once, the upload
\* only after the download returned a file and only once.
C17_StepsOnceInOrder ==
    [][\A j \in JobIds :
          /\ search(j) =>
                searchCause[j] = None /\ fetchCause[j] = None /\ uploadCause[j] = None
          /\ download(j) =>
                /\ searchCause[j] = "found" /\ video_info[j] # None
                /\ fetchCause[j] = None /\ uploadCause[j] = None
          /\ upload(j) =>
                /\ searchCause[j] = "found"
                /\ fetchCause[j] = "ok" /\ mp3_file[j] # NoFile
                /\ uploadCause[j] = None]_vars

\* C17 witness: one job has returned after all three calls and another one
\* after a failed download, without an upload.
C17_Witness ==
    \E j, k \in JobIds :
        /\ pc[j] = "done" /\ uploadCause[j] # None
        /\ pc[k] = "done" /\ searchCause[k] = "found"
        /\ fetchCause[k] \in {"nonzero", "timeout"} /\ uploadCause[k] = None

\* C18: for no user more than one thread is started after one download
\* command.
C18_OneStartPerCommand ==
    \A u \in Users : started[u] <= 1

\* The messages of a user are handled one at a time: a message of a user is
\* received only when no call for that user is in progress.
callback_one_at_a_time(u, t) ==
    /\ \A c \in BagToSet(calls) : c.user_id # u
    /\ callback(u, t)

OneAtATimeNext ==
    \/ \E u \in Users, t \in Texts : callback_one_at_a_time(u, t)
    \/ \E c \in BagToSet(calls) : reply_command(c)
    \/ \E c \in BagToSet(calls) : ask_song_name(c)
    \/ \E c \in BagToSet(calls) : test_waiting(c)
    \/ \E c \in BagToSet(calls) : show_usage(c)
    \/ \E c \in BagToSet(calls) : Thread_start(c)
    \/ \E c \in BagToSet(calls) : reset_state(c)
    \/ \E j \in JobIds : run(j)
    \/ \E j \in JobIds : push_searching(j)
    \/ \E j \in JobIds : search(j)
    \/ \E j \in JobIds : push_not_found(j)
    \/ \E j \in JobIds : push_found(j)
    \/ \E j \in JobIds : download(j)
    \/ \E j \in JobIds : push_download_failed(j)
    \/ \E j \in JobIds : push_uploading(j)
    \/ \E j \in JobIds : upload(j)
    \/ \E j \in JobIds : unlink(j)
    \/ \E j \in JobIds : report(j)
    \/ \E j \in JobIds : except_clause(j)

OneAtATimeSpec == Init /\ [][OneAtATimeNext]_vars

\* C19: with the messages of a user handled one at a time, a thread is
\* started only by the handler of a message that is no command and only
\* while the state of its user is waiting_song_name, for that user and that
\* text; the handler that started it ends by setting the state to None; the
\* test and the usage command start no thread and change no state; and the
\* state of a user is changed only by the handler of a message of that user.
C19_StartOnlyBySongName ==
    [][/\ \A j \in JobIds :
             pc[j] = "unborn" /\ pc'[j] # "unborn" =>
                \E c \in BagToSet(calls) :
                    /\ Thread_start(c)
                    /\ c.message_text \notin Commands
                    /\ user_states[c.user_id] = "waiting_song_name"
                    /\ user_id'[j] = c.user_id /\ song_name'[j] = c.message_text
       /\ \A c \in BagToSet(calls) :
             /\ c.pc = "L80" /\ calls' # calls /\ calls' = Leave(c) =>
                   user_states'[c.user_id] = None
             /\ c.pc = "L80" => user_states[c.user_id] = "waiting_song_name"
             /\ reply_command(c) => pc' = pc /\ user_states' = user_states
       /\ \A u \in Users :
             user_states'[u] # user_states[u] =>
                \E c \in BagToSet(calls) : c.user_id = u /\ handle_message(c)]_vars

\* C19 witness: the song name of one user has started a thread and the
\* state of that user is None again, while the state of the other user is
\* still waiting_song_name.
C19_Witness ==
    \E j \in JobIds, u, w \in Users :
        /\ calls = EmptyBag
        /\ Born(j) /\ user_id[j] = u /\ user_states[u] = None
        /\ w # u /\ user_states[w] = "waiting_song_name"

\* C20: when the thread of a job has ended after download_audio returned a
\* file, that file is no longer on disk.
C20_ArtifactDeletedAtExit ==
    \A j \in JobIds :
        Exited(j) /\ mp3_file[j] # NoFile => mp3_file[j] \notin files

====
